---- MODULE Spec2Model ----
(***************************************************************************)
(* SkyPulse: the news aggregation engine (news.py over rss_service.py),    *)
(* the currency-rate cache (finance_service.py), the subscriptions with    *)
(* their file and the broadcast worker (bot.py over weather.py), as state  *)
(* machines.                                                               *)
(*                                                                         *)
(* Strings the code inspects character by character (article titles) are   *)
(* sequences of one-character strings.  Python's None, a list and a dict   *)
(* are records with a tag field, so that values of different Python types  *)
(* can be compared.                                                        *)
(***************************************************************************)
EXTENDS Integers, Sequences, FiniteSets, TLC

VARIABLES
    \* ---- one call of NewsService.get_news_by_category ----
    npc,         \* position of the call: "idle", "gather", "done", "raised"
    category,    \* the call's argument
    sources,     \* the local `sources`: the resolved list of (name, url)
    responses,   \* what the network answered to each source's request
    results,     \* what each _fetch_source task returned (or "pending")
    arrival,     \* the sources in the order their tasks completed
    requests,    \* per source: the network requests its fetch_feed issued
    news,        \* the value the call returned
    \* ---- FinanceService and its callers ----
    clock,       \* time.time()
    ticks,       \* how often the clock has advanced
    cache,       \* self._cache
    cache_time,  \* self._cache_time
    fpc,         \* per caller: "idle", "fetching", "done"
    fnow,        \* per caller: the local `now`
    fret,        \* per caller: the value get_rates returned
    fnet,        \* per caller: network requests issued by its current call
    fresp,       \* per caller: what the upstream answered to its request
    fseen,       \* per caller: the cache entry and the last payload handed
                 \* out, as the call found them
    flast,       \* the payload most recently handed to any caller
    \* ---- the subscriptions and their file ----
    subscriptions, \* the dict `subscriptions`, in insertion order
    subs_file,     \* the content of SUBS_FILE
    lastop,        \* the handler that ran last, its input and the
                   \* subscriptions it found
    lastsave,      \* how the most recent save_subs ended
    nops,          \* how many handlers and restarts have run
    \* ---- broadcast_worker ----
    wclock,      \* the wall clock, in seconds since midnight UTC
    wpc,         \* position of the worker: "start", "fetching", "sending",
                 \* "sleeping", "stopped"
    wsleep,      \* the seconds of the sleep the worker is in
    wnow,        \* the local `now` of the current tick
    wsnap,       \* list(subscriptions.items()) of the current tick
    widx,        \* how far the for loop has come in wsnap
    wticks,      \* how many ticks have started
    wraised,     \* an exception escaped the body of the current tick
    wfetched,    \* the get_current calls of the current tick: user, result
    wsent,       \* the send_message calls of the current tick: user, outcome
    wfailed,     \* the get_current calls of all ticks that returned no data
    \* ---- the favourites of one user ----
    favorites,   \* the user's entry of the dict `favorites`
    favs_file,   \* the content of FAVS_FILE
    apc,         \* per add_fav_city call: "idle", "lookup"
    acity,       \* per add_fav_city call: the local `city`
    adet,        \* per add_fav_city call: the list `user_favs` refers to
                 \* is no longer the one in the dict
    fops         \* how many favourites handlers have started

newsVars == <<npc, category, sources, responses, results, arrival, requests,
              news>>
finVars  == <<clock, ticks, cache, cache_time, fpc, fnow, fret, fnet, fresp,
              fseen, flast>>
subsVars == <<subscriptions, subs_file, lastop, lastsave, nops>>
workerVars == <<wclock, wpc, wsleep, wnow, wsnap, widx, wticks, wraised,
                wfetched, wsent, wfailed>>
favVars == <<favorites, favs_file, apc, acity, adet, fops>>
vars     == <<npc, category, sources, responses, results, arrival, requests,
              news,
              clock, ticks, cache, cache_time, fpc, fnow, fret, fnet, fresp,
              fseen, flast,
              subscriptions, subs_file, lastop, lastsave, nops,
              wclock, wpc, wsleep, wnow, wsnap, widx, wticks, wraised,
              wfetched, wsent, wfailed,
              favorites, favs_file, apc, acity, adet, fops>>

(***************************************************************************)
(* Bounds of the model.                                                    *)
(***************************************************************************)
\* publication times of feed entries are 1..MaxTs (epoch seconds)
MaxTs == 2
\* number of entries of the long feed documents
LongLen == 7
\* how often the clock advances
MaxTicks == 3
\* time.time() when the process starts
StartTime == 100000
\* how many subscription handlers and restarts run
MaxOps == 3
\* the favourites handlers that start in one run
MaxFavOps == 4
\* number of entries of the longest feed document
MaxEntries == 12
\* the wall clock when the process starts: 07:29:00 UTC
DispStart == 26940
\* the wall clock runs for so many seconds
DispHorizon == 180

(***************************************************************************)
(* Program constants.                                                      *)
(***************************************************************************)
\* feed.entries[:10]
FeedLimit == 10
\* unique_articles[:7]
TopN == 7
\* self._ttl = 3600
TTL == 3600
\* asyncio.sleep(60 - datetime.now().second)
TickPeriod == 60
\* asyncio.sleep(60) after an exception
FallbackSleep == 60
\* MAX_FAVORITES = 5
MAX_FAVORITES == 5

(***************************************************************************)
(* Python values.                                                          *)
(***************************************************************************)
NoneVal == [st |-> "none", items |-> <<>>]
Raised  == [st |-> "raised", items |-> <<>>]
Pending == [st |-> "pending", items |-> <<>>]
List(s) == [st |-> "list", items |-> s]

\* `if x:` for x a list or None
Truthy(x) == x.st = "list" /\ x.items # <<>>

Min(a, b) == IF a <= b THEN a ELSE b

\* s[:n]
Prefix(s, n) == SubSeq(s, 1, Min(n, Len(s)))

(***************************************************************************)
(* str.lower() and str.strip() on titles.                                  *)
(***************************************************************************)
UpperChars == <<"A", "B", "C", "D", "E", "F", "G", "H", "I", "J", "K", "L",
                "M", "N">>
LowerChars == <<"a", "b", "c", "d", "e", "f", "g", "h", "i", "j", "k", "l",
                "m", "n">>

LowerChar(c) ==
    IF \E i \in 1..Len(UpperChars) : UpperChars[i] = c
    THEN LowerChars[CHOOSE i \in 1..Len(UpperChars) : UpperChars[i] = c]
    ELSE c

StrLower(s) == [i \in 1..Len(s) |-> LowerChar(s[i])]

IsSpace(c) == c = " "

RECURSIVE LStrip(_)
LStrip(s) ==
    IF s # <<>> /\ IsSpace(Head(s)) THEN LStrip(Tail(s)) ELSE s

RECURSIVE RStrip(_)
RStrip(s) ==
    IF s # <<>> /\ IsSpace(s[Len(s)]) THEN RStrip(SubSeq(s, 1, Len(s) - 1)) ELSE s

StrStrip(s) == RStrip(LStrip(s))

\* t = art["title"].lower().strip()
NormalizeTitle(title) == StrStrip(StrLower(title))

(***************************************************************************)
(* RSS_CHANNELS, cut to three of its eight topics and to the first two     *)
(* sources of a topic.  A source is <<name, url>>.                         *)
(***************************************************************************)
RSS_CHANNELS ==
    [general    |-> << <<"Lenta.ru", "https://lenta.ru/rss/news">>,
                       <<"TASS", "https://tass.ru/rss/v2.xml">> >>,
     technology |-> << <<"Habr", "https://habr.com/ru/rss/all/all/">>,
                       <<"3DNews", "https://www.3dnews.ru/news/rss/">> >>,
     auto       |-> << <<"Kolesa.ru", "https://www.kolesa.ru/rss">> >>]

\* the topics a caller may ask for: the configured ones and one that is not
Categories == DOMAIN RSS_CHANNELS \cup {"weather"}

\* variant: a lookup whose default is the empty list
ResolveSourcesNoDefault(cat) ==
    IF cat \in DOMAIN RSS_CHANNELS THEN RSS_CHANNELS[cat] ELSE <<>>

\* RSS_CHANNELS.get(category, RSS_CHANNELS["general"])
ResolveSources(cat) ==
    IF cat \in DOMAIN RSS_CHANNELS THEN RSS_CHANNELS[cat] ELSE RSS_CHANNELS["general"]

(***************************************************************************)
(* What the network may answer to one feed request.                        *)
(* An entry of a parsed feed is [title, published_parsed, link];           *)
(* published_parsed is <<>> (absent) or <<t>>, a time struct standing for  *)
(* epoch second t.  The link of an entry is its position in the feed.      *)
(***************************************************************************)
Titles == { <<"A">>, <<" ", "a", " ">>, <<"B">> }

PubTimes == {<<>>} \cup { <<t>> : t \in 1..MaxTs }

Entry(title, pp, link) == [title |-> title, published_parsed |-> pp, link |-> link]

\* every feed of at most two entries over Titles and PubTimes
ShortFeeds ==
    {<<>>}
    \cup { <<Entry(t, p, 1)>> : t \in Titles, p \in PubTimes }
    \cup { <<Entry(t1, p1, 1), Entry(t2, p2, 2)>> :
               t1 \in Titles, p1 \in PubTimes, t2 \in Titles, p2 \in PubTimes }

\* feeds of LongLen entries with pairwise different titles "C", "D", ...
\* all published at the same time p
LongFeed(p) == [i \in 1..LongLen |-> Entry(<<UpperChars[i + 2]>>, p, i)]

LongFeeds == { LongFeed(p) : p \in PubTimes }

Feeds == ShortFeeds \cup LongFeeds

Responses ==
    { [kind |-> "ok", entries |-> f] : f \in Feeds }
    \cup { [kind |-> k, entries |-> <<>>] : k \in {"status", "exception"} }

NoResponse == [kind |-> "none", entries |-> <<>>]

\* the feed of n entries with titles "A", "B", ... whose first z entries
\* carry no publication time and whose other entries were published at t
DatedFeed(n, z, t) ==
    [i \in 1..n |-> Entry(<<UpperChars[i]>>, IF i <= z THEN <<>> ELSE <<t>>, i)]

\* the lengths of these feeds: short ones, and the lengths around the cap
FeedLens == {0, 1, 5} \cup ((FeedLimit - 1)..MaxEntries)

DatedFeeds ==
    { DatedFeed(n, z, t) : n \in FeedLens, z \in {0, 1, 4}, t \in {1, MaxTs} }

DatedResponses ==
    { [kind |-> "ok", entries |-> f] : f \in DatedFeeds }
    \cup { [kind |-> k, entries |-> <<>>] : k \in {"status", "exception"} }

(***************************************************************************)
(* RSSService.fetch_feed                                                   *)
(***************************************************************************)
\* time.mktime(published_parsed): the epoch second of the time struct
Mktime(pp) == pp[1]

\* timestamp = time.mktime(published_parsed) if published_parsed else 0
EntryTimestamp(entry) ==
    IF entry.published_parsed # <<>> THEN Mktime(entry.published_parsed) ELSE 0

\* the dict fetch_feed builds of one entry
FeedItem(entry) ==
    [title |-> entry.title, link |-> entry.link,
     timestamp |-> EntryTimestamp(entry), source_name |-> ""]

\* variant: the body without the slice of feed.entries
FetchFeedBodyUncapped(resp) ==
    IF resp.kind = "exception" THEN Raised
    ELSE IF resp.kind = "status" THEN NoneVal
    ELSE List([i \in 1..Len(resp.entries) |-> FeedItem(resp.entries[i])])

\* the body of the try block: a timeout, a network error or a parse error
\* raises; a status other than 200 returns None
FetchFeedBody(resp) ==
    IF resp.kind = "exception" THEN Raised
    ELSE IF resp.kind = "status" THEN NoneVal
    ELSE LET es == Prefix(resp.entries, FeedLimit)
         IN  List([i \in 1..Len(es) |-> FeedItem(es[i])])

\* variant: the try block without its except clause
FetchFeedNoExcept(resp) == FetchFeedBody(resp)

\* variant: a second request after a failed one
FetchFeedRequestsRetry(resp) == IF resp.kind = "ok" THEN 1 ELSE 2

\* the requests one fetch_feed call issues when the network answers `resp`:
\* the one session.get, whatever comes of it
FetchFeedRequests(resp) == 1

\* except Exception: return None
FetchFeed(resp) ==
    LET r == FetchFeedBody(resp) IN IF r.st = "raised" THEN NoneVal ELSE r

(***************************************************************************)
(* NewsService._fetch_source                                               *)
(***************************************************************************)
FetchSource(name, resp) ==
    LET data == FetchFeed(resp)
    IN  IF data.st = "raised" THEN Raised
        ELSE IF Truthy(data)
        THEN List([i \in 1..Len(data.items) |->
                      [data.items[i] EXCEPT !.source_name = name]])
        ELSE NoneVal

(***************************************************************************)
(* NewsService.get_news_by_category: the merge after the gather            *)
(***************************************************************************)
\* for res in results: if res: all_articles.extend(res)
RECURSIVE AllArticles(_)
AllArticles(rs) ==
    IF rs = <<>> THEN <<>>
    ELSE (IF Truthy(Head(rs)) THEN Head(rs).items ELSE <<>>) \o AllArticles(Tail(rs))

\* variant: x goes before the elements that are exactly as fresh
RECURSIVE InsertDescUnstable(_, _)
InsertDescUnstable(sorted, x) ==
    IF sorted = <<>> THEN <<x>>
    ELSE IF Head(sorted).timestamp > x.timestamp
         THEN <<Head(sorted)>> \o InsertDescUnstable(Tail(sorted), x)
         ELSE <<x>> \o sorted

\* variant: oldest first
RECURSIVE InsertAsc(_, _)
InsertAsc(sorted, x) ==
    IF sorted = <<>> THEN <<x>>
    ELSE IF Head(sorted).timestamp <= x.timestamp
         THEN <<Head(sorted)>> \o InsertAsc(Tail(sorted), x)
         ELSE <<x>> \o sorted

RECURSIVE SortAscFrom(_, _)
SortAscFrom(sorted, rest) ==
    IF rest = <<>> THEN sorted
    ELSE SortAscFrom(InsertAsc(sorted, Head(rest)), Tail(rest))

\* variant: the sort without reverse=True
SortByTimestampAsc(arts) == SortAscFrom(<<>>, arts)

\* x goes after every element that is at least as fresh
RECURSIVE InsertDesc(_, _)
InsertDesc(sorted, x) ==
    IF sorted = <<>> THEN <<x>>
    ELSE IF Head(sorted).timestamp >= x.timestamp
         THEN <<Head(sorted)>> \o InsertDesc(Tail(sorted), x)
         ELSE <<x>> \o sorted

RECURSIVE SortFrom(_, _)
SortFrom(sorted, rest) ==
    IF rest = <<>> THEN sorted
    ELSE SortFrom(InsertDesc(sorted, Head(rest)), Tail(rest))

\* all_articles.sort(key=timestamp, reverse=True): a stable descending sort
SortByTimestampDesc(arts) == SortFrom(<<>>, arts)

RECURSIVE DedupRawFrom(_, _, _)
DedupRawFrom(arts, seen_titles, unique_articles) ==
    IF arts = <<>> THEN unique_articles
    ELSE LET art == Head(arts)
             t   == art.title
         IN  IF t \notin seen_titles
             THEN DedupRawFrom(Tail(arts), seen_titles \cup {t}, Append(unique_articles, art))
             ELSE DedupRawFrom(Tail(arts), seen_titles, unique_articles)

\* variant: the seen_titles loop comparing the titles as they are
UniqueArticlesRaw(arts) == DedupRawFrom(arts, {}, <<>>)

RECURSIVE DedupFrom(_, _, _)
DedupFrom(arts, seen_titles, unique_articles) ==
    IF arts = <<>> THEN unique_articles
    ELSE LET art == Head(arts)
             t   == NormalizeTitle(art.title)
         IN  IF t \notin seen_titles
             THEN DedupFrom(Tail(arts), seen_titles \cup {t}, Append(unique_articles, art))
             ELSE DedupFrom(Tail(arts), seen_titles, unique_articles)

\* the seen_titles loop
UniqueArticles(arts) == DedupFrom(arts, {}, <<>>)

\* variant: the cut to 7 made before the duplicates are removed
TopArticlesCutFirst(arts) == UniqueArticles(Prefix(SortByTimestampDesc(arts), TopN))

\* sort, then deduplicate, then unique_articles[:7]
TopArticles(arts) == Prefix(UniqueArticles(SortByTimestampDesc(arts)), TopN)

NoNews == [kind |-> "none", source |-> "", articles |-> <<>>]

\* variant: no `if not all_articles: return None`
MixResultsNoEmptyCheck(rs) ==
    [kind |-> "dict", source |-> "Smart Mix", articles |-> TopArticles(AllArticles(rs))]

\* what the call returns once the gather has returned `rs`
MixResults(rs) ==
    LET all_articles == AllArticles(rs)
    IN  IF all_articles = <<>> THEN NoNews
        ELSE [kind |-> "dict", source |-> "Smart Mix",
              articles |-> TopArticles(all_articles)]

(***************************************************************************)
(* NewsService.format_news: the message, or the numbered lines             *)
(***************************************************************************)
NoNewsMessage == [failed |-> TRUE, header |-> "", lines |-> <<>>]

FormatNews(data, category_title) ==
    IF data.kind = "none" \/ data.articles = <<>> THEN NoNewsMessage
    ELSE [failed |-> FALSE, header |-> category_title,
          lines  |-> [i \in 1..Len(data.articles) |->
                         [n |-> i, link |-> data.articles[i].link,
                          title |-> StrStrip(data.articles[i].title),
                          src |-> data.articles[i].source_name]]]

(***************************************************************************)
(* The aggregation call as steps.                                          *)
(***************************************************************************)
NewsInit ==
    /\ npc = "idle"
    /\ category = "general"
    /\ sources = <<>>
    /\ responses = <<>>
    /\ results = <<>>
    /\ arrival = <<>>
    /\ requests = <<>>
    /\ news = NoNews

\* variant: the wait ends with the first completed task
GatherCompleteAny(rs) == \E i \in 1..Len(rs) : rs[i] # Pending

\* variant: the values in the order of completion
GatherResultsAsCompleted(rs, order) == [k \in 1..Len(order) |-> rs[order[k]]]

\* asyncio.gather returns once every task has completed
GatherComplete(rs) == \A i \in 1..Len(rs) : rs[i] # Pending

\* asyncio.gather returns the tasks' values in the order of the tasks,
\* whatever the order `order` in which they completed
GatherResults(rs, order) == rs

\* the call starts: the sources are resolved and one task per source is made
GetNewsByCategory(cat) ==
    /\ npc = "idle"
    /\ npc' = "gather"
    /\ category' = cat
    /\ sources' = ResolveSources(cat)
    /\ responses' = [i \in 1..Len(ResolveSources(cat)) |-> NoResponse]
    /\ results' = [i \in 1..Len(ResolveSources(cat)) |-> Pending]
    /\ arrival' = <<>>
    /\ requests' = [i \in 1..Len(ResolveSources(cat)) |-> 0]
    /\ news' = NoNews
    /\ UNCHANGED <<finVars, subsVars, workerVars, favVars>>

\* the task of source i completes, the network having answered `resp`
FetchSourceDone(i, resp) ==
    /\ npc = "gather"
    /\ results[i] = Pending
    /\ responses' = [responses EXCEPT ![i] = resp]
    /\ results' = [results EXCEPT ![i] = FetchSource(sources[i][1], resp)]
    /\ arrival' = Append(arrival, i)
    /\ requests' = [requests EXCEPT ![i] = FetchFeedRequests(resp)]
    /\ UNCHANGED <<npc, category, sources, news>>
    /\ UNCHANGED <<finVars, subsVars, workerVars, favVars>>

\* asyncio.gather returns (or raises what a task raised), and the rest of the
\* function runs without suspension
GatherDone ==
    /\ npc = "gather"
    /\ GatherComplete(results)
    /\ IF \E i \in 1..Len(results) : results[i] = Raised
       THEN npc' = "raised" /\ news' = NoNews
       ELSE npc' = "done" /\ news' = MixResults(GatherResults(results, arrival))
    /\ arrival' = <<>>
    /\ UNCHANGED <<category, sources, responses, results, requests>>
    /\ UNCHANGED <<finVars, subsVars, workerVars, favVars>>

\* the caller has the value and the call's locals are gone; the service is
\* ready for the next call
NewsReturn ==
    /\ npc \in {"done", "raised"}
    /\ npc' = "idle"
    /\ category' = "general"
    /\ sources' = <<>>
    /\ responses' = <<>>
    /\ results' = <<>>
    /\ arrival' = <<>>
    /\ requests' = <<>>
    /\ news' = NoNews
    /\ UNCHANGED <<finVars, subsVars, workerVars, favVars>>

(***************************************************************************)
(* Properties of the aggregation call.                                     *)
(***************************************************************************)
NewsReturned == npc = "done" /\ news.kind = "dict"

\* everything the successful sources delivered, in discovery order
Fetched == AllArticles(results)

\* the fetched items whose normalized title is t
TitleGroup(t) == { k \in 1..Len(Fetched) : NormalizeTitle(Fetched[k].title) = t }

FetchedTitles == { NormalizeTitle(Fetched[k].title) : k \in 1..Len(Fetched) }

\* the greatest timestamp among the fetched items with normalized title t
FreshestOf(t) ==
    CHOOSE m \in { Fetched[k].timestamp : k \in TitleGroup(t) } :
        \A k \in TitleGroup(t) : Fetched[k].timestamp <= m

\* the places of the result that hold normalized title t
ResultPlaces(t) ==
    { h \in 1..Len(news.articles) : NormalizeTitle(news.articles[h].title) = t }

\* C1: no two articles of a returned result have the same normalized title
\* (lower-cased, surrounding whitespace stripped)
C1_UniqueNormalizedTitles ==
    NewsReturned =>
        \A i, j \in 1..Len(news.articles) :
            i # j => NormalizeTitle(news.articles[i].title)
                       # NormalizeTitle(news.articles[j].title)

\* a result was returned for feeds that held the same title in two spellings
C1_Witness ==
    /\ NewsReturned
    /\ \E i, j \in 1..Len(Fetched) :
          /\ Fetched[i].title # Fetched[j].title
          /\ NormalizeTitle(Fetched[i].title) = NormalizeTitle(Fetched[j].title)

\* C2 as stated: a normalized title shared by several fetched items has
\* exactly one entry in the result, the one with the greatest timestamp
C2_ExactlyOneFreshest ==
    NewsReturned =>
        \A t \in FetchedTitles :
            Cardinality(TitleGroup(t)) >= 2 =>
                /\ Cardinality(ResultPlaces(t)) = 1
                /\ \A h \in ResultPlaces(t) :
                      /\ news.articles[h].timestamp = FreshestOf(t)
                      /\ \E k \in TitleGroup(t) : Fetched[k] = news.articles[h]

\* C2 amended: a normalized title shared by several fetched items has at most
\* one entry in the result, that entry is the fetched item with the greatest
\* timestamp among them, and the title has no entry only when the result
\* already holds 7 items that are at least as fresh
C2_AtMostOneFreshest ==
    NewsReturned =>
        \A t \in FetchedTitles :
            Cardinality(TitleGroup(t)) >= 2 =>
                /\ Cardinality(ResultPlaces(t)) <= 1
                /\ \A h \in ResultPlaces(t) :
                      /\ news.articles[h].timestamp = FreshestOf(t)
                      /\ \E k \in TitleGroup(t) : Fetched[k] = news.articles[h]
                /\ ResultPlaces(t) = {} =>
                      /\ Len(news.articles) = TopN
                      /\ \A h \in 1..Len(news.articles) :
                            news.articles[h].timestamp >= FreshestOf(t)

\* the spec's scenario: one source has the title at an older time, the other
\* source has it in another spelling at a newer time, and the result holds
\* the newer one, with the title and the source name of the second source
C2_Witness ==
    /\ NewsReturned
    /\ Len(sources) = 2
    /\ \E i, j \in 1..Len(Fetched) :
          /\ Fetched[i].source_name = sources[1][1]
          /\ Fetched[j].source_name = sources[2][1]
          /\ Fetched[i].title # Fetched[j].title
          /\ NormalizeTitle(Fetched[i].title) = NormalizeTitle(Fetched[j].title)
          /\ Fetched[i].timestamp < Fetched[j].timestamp
          /\ Fetched[j].timestamp = FreshestOf(NormalizeTitle(Fetched[j].title))
          /\ \E h \in 1..Len(news.articles) : news.articles[h] = Fetched[j]

\* C3: a returned result has at most 7 items, its timestamps do not increase
\* from first to last, and it holds the 7 freshest distinct titles: as many
\* items as there are distinct titles (up to 7), each as fresh as its title
\* gets, and no title left out is fresher than one that is in
C3_CappedSortedFreshest ==
    NewsReturned =>
        /\ Len(news.articles) <= TopN
        /\ \A i, j \in 1..Len(news.articles) :
              i < j => news.articles[i].timestamp >= news.articles[j].timestamp
        /\ Len(news.articles) = Min(TopN, Cardinality(FetchedTitles))
        /\ \A h \in 1..Len(news.articles) :
              news.articles[h].timestamp
                  = FreshestOf(NormalizeTitle(news.articles[h].title))
        /\ \A t \in FetchedTitles :
              ResultPlaces(t) = {} =>
                  \A h \in 1..Len(news.articles) :
                      news.articles[h].timestamp >= FreshestOf(t)

\* more than 7 distinct titles were fetched, some of them twice, and the
\* result was cut to 7
C3_Witness ==
    /\ NewsReturned
    /\ Cardinality(FetchedTitles) > TopN
    /\ Len(Fetched) > Cardinality(FetchedTitles)
    /\ Len(news.articles) = TopN
    /\ news.articles[1].timestamp > news.articles[TopN].timestamp

\* the position of an article's source in the resolved source list
SourcePosition(art) ==
    CHOOSE p \in 1..Len(sources) : sources[p][1] = art.source_name

\* C4: articles with equal timestamps appear in discovery order: by the
\* position of their source in the source list, then by position in the feed
C4_TiesInDiscoveryOrder ==
    NewsReturned =>
        \A i, j \in 1..Len(news.articles) :
            (i < j /\ news.articles[i].timestamp = news.articles[j].timestamp) =>
                \/ SourcePosition(news.articles[i]) < SourcePosition(news.articles[j])
                \/ /\ SourcePosition(news.articles[i]) = SourcePosition(news.articles[j])
                   /\ news.articles[i].link < news.articles[j].link

\* the result holds a tie within one source and a tie across two sources
C4_Witness ==
    /\ NewsReturned
    /\ \E i, j \in 1..Len(news.articles) :
          /\ i < j
          /\ news.articles[i].timestamp = news.articles[j].timestamp
          /\ news.articles[i].source_name = news.articles[j].source_name
    /\ \E i, j \in 1..Len(news.articles) :
          /\ i < j
          /\ news.articles[i].timestamp = news.articles[j].timestamp
          /\ news.articles[i].source_name # news.articles[j].source_name

\* what a call with topic "general" returns for the responses `rsp`
GeneralResult(rsp) ==
    MixResults([i \in 1..Len(RSS_CHANNELS["general"]) |->
                   FetchSource(RSS_CHANNELS["general"][i][1], rsp[i])])

\* C5: a call with a topic that is not configured never raises, fetches
\* exactly the sources of "general", and returns what a call with topic
\* "general" returns for the same responses
C5_UnknownTopicIsGeneral ==
    (npc # "idle" /\ category \notin DOMAIN RSS_CHANNELS) =>
        /\ npc # "raised"
        /\ sources = RSS_CHANNELS["general"]
        /\ DOMAIN responses = 1..Len(RSS_CHANNELS["general"])
        /\ npc = "done" => news = GeneralResult(responses)

\* a call with an unknown topic has returned articles
C5_Witness ==
    /\ NewsReturned
    /\ category \notin DOMAIN RSS_CHANNELS
    /\ Len(news.articles) >= 2

\* the request of source i failed or brought no entry
NoItemsFrom(i) == responses[i].kind # "ok" \/ responses[i].entries = <<>>

\* C6: when every source fetch fails or yields no item, the call returns
\* None and raises nothing, and format_news renders the "no content" message
C6_AllFailedIsEmptyResult ==
    (npc \in {"done", "raised"} /\ \A i \in 1..Len(responses) : NoItemsFrom(i)) =>
        /\ npc = "done"
        /\ news = NoNews
        /\ FormatNews(news, category) = NoNewsMessage

\* a call over two sources ended, one request having raised and the other
\* having answered with a status other than 200
C6_Witness ==
    /\ npc = "done"
    /\ Len(responses) = 2
    /\ \E i, j \in 1..Len(responses) :
          responses[i].kind = "exception" /\ responses[j].kind = "status"

\* the items of source i when its request succeeded, none otherwise
ItemsOfSuccessful(i) ==
    IF responses[i].kind = "ok"
    THEN [k \in 1..Min(Len(responses[i].entries), FeedLimit) |->
             [title |-> responses[i].entries[k].title,
              link |-> responses[i].entries[k].link,
              timestamp |-> EntryTimestamp(responses[i].entries[k]),
              source_name |-> sources[i][1]]]
    ELSE <<>>

RECURSIVE ItemsOfSuccessfulFrom(_)
ItemsOfSuccessfulFrom(i) ==
    IF i > Len(responses) THEN <<>>
    ELSE ItemsOfSuccessful(i) \o ItemsOfSuccessfulFrom(i + 1)

\* C7: when some but not all source fetches fail, the call raises nothing and
\* returns the merge of the items of the successful sources alone
C7_FailedSourcesDropped ==
    (/\ npc \in {"done", "raised"}
     /\ \E i \in 1..Len(responses) : responses[i].kind # "ok"
     /\ \E i \in 1..Len(responses) : responses[i].kind = "ok") =>
        /\ npc = "done"
        /\ news = IF ItemsOfSuccessfulFrom(1) = <<>> THEN NoNews
                  ELSE [kind |-> "dict", source |-> "Smart Mix",
                        articles |-> TopArticles(ItemsOfSuccessfulFrom(1))]

\* one request raised, the other source delivered, and articles were returned
C7_Witness ==
    /\ NewsReturned
    /\ \E i \in 1..Len(responses) : responses[i].kind = "exception"
    /\ \E i \in 1..Len(responses) :
          responses[i].kind = "ok" /\ Len(responses[i].entries) = 2
    /\ Len(news.articles) = 2

\* C16: fetch_feed never raises: for a status other than 200 and for a
\* timeout, a network error or a parse error it returns None, so no task of
\* the gather raises and the aggregation call does not fail
C16_FetchFeedNeverRaises ==
    /\ npc # "raised"
    /\ \A i \in 1..Len(results) :
          results[i] # Pending =>
             /\ FetchFeed(responses[i]) # Raised
             /\ results[i] # Raised
             /\ responses[i].kind \in {"status", "exception"} =>
                   FetchFeed(responses[i]) = NoneVal /\ results[i] = NoneVal

\* one feed answered with a bad status, the other request raised, and the
\* call has returned
C16_Witness ==
    /\ npc = "done"
    /\ \E i \in 1..Len(responses) : responses[i].kind = "status"
    /\ \E i \in 1..Len(responses) : responses[i].kind = "exception"

\* C19: a call has one fetch per source of the resolved list, all of them in
\* flight from the start, and it has a result only when every one of them
\* has completed; while a fetch is in flight there is no result
C19_ResultAfterAllFetches ==
    /\ npc # "idle" =>
          /\ sources = ResolveSources(category)
          /\ DOMAIN results = DOMAIN sources
    /\ npc = "gather" =>
          /\ news = NoNews
          /\ {arrival[k] : k \in 1..Len(arrival)}
                = {i \in 1..Len(results) : results[i] # Pending}
    /\ npc \in {"done", "raised"} =>
          \A i \in 1..Len(results) : results[i] # Pending

\* a call over two sources returned articles after both fetches completed,
\* one of them with a failure
C19_Witness ==
    /\ NewsReturned
    /\ Len(sources) = 2
    /\ \A i \in 1..2 : results[i] # Pending
    /\ \E i \in 1..2 : results[i] = NoneVal

\* what a call returns for the sources and their responses, taken in the
\* order of the source list
ResultInSourceOrder ==
    MixResults([i \in 1..Len(sources) |-> FetchSource(sources[i][1], responses[i])])

\* C20: the result a call returns is a function of the source list and of
\* the responses of the sources, whatever the order the fetches completed in
C20_CompletionOrderIrrelevant ==
    [][(npc = "gather" /\ npc' = "done") => news' = ResultInSourceOrder]_vars

\* the second source completed before the first, both delivered one article
\* of the same timestamp under different titles, and the call is about to
\* return both, the article of the first source first
C20_Witness ==
    /\ npc = "gather"
    /\ arrival = <<2, 1>>
    /\ GatherComplete(results)
    /\ \A i \in 1..2 : responses[i].kind = "ok" /\ Len(responses[i].entries) = 1
    /\ EntryTimestamp(responses[1].entries[1]) = EntryTimestamp(responses[2].entries[1])
    /\ Len(ResultInSourceOrder.articles) = 2
    /\ ResultInSourceOrder.articles[1].source_name = sources[1][1]

RECURSIVE SumOf(_)
SumOf(seq) == IF seq = <<>> THEN 0 ELSE Head(seq) + SumOf(Tail(seq))

\* C22: a fetch that has completed, failed or not, stays as it is for the
\* rest of the call, with its one request; when the call ends, every source
\* has had exactly one request, N requests for N sources
C22_OneRequestPerSource ==
    [][/\ \A i \in 1..Len(results) :
             (npc = "gather" /\ results[i] # Pending) =>
                /\ requests[i] = 1
                /\ results'[i] = results[i]
                /\ responses'[i] = responses[i]
                /\ requests'[i] = requests[i]
       /\ npc' \in {"done", "raised"} =>
             /\ \A i \in 1..Len(sources') : requests'[i] = 1
             /\ SumOf(requests') = Len(sources')]_vars

\* a call over two sources has ended, one fetch failed, and two requests
\* were issued
C22_Witness ==
    /\ npc = "done"
    /\ Len(sources) = 2
    /\ \E i \in 1..2 : responses[i].kind # "ok"
    /\ \E i \in 1..2 : responses[i].kind = "ok"
    /\ requests = <<1, 1>>


(***************************************************************************)
(* FinanceService.  A dict of rates is a set of <<currency, rate>> pairs;  *)
(* a returned value is None or a dict.                                     *)
(***************************************************************************)
\* the concurrent callers of get_rates
Callers == {1, 2}

RNone == [kind |-> "none", value |-> {}]
RDict(d) == [kind |-> "dict", value |-> d]

\* the "rates" objects the upstream may send
Rates == { {<<"RUB", 90>>, <<"EUR", 1>>}, {<<"RUB", 91>>, <<"EUR", 1>>} }

\* what the upstream may answer: the request raises (timeout, network error,
\* invalid JSON), or a status with a JSON body that may lack the "rates" key
FinResponses ==
    { [kind |-> "exception", status |-> 0, result |-> "", has_rates |-> FALSE, rates |-> {}] }
    \cup { [kind |-> "http", status |-> 500, result |-> "", has_rates |-> FALSE, rates |-> {}] }
    \cup { [kind |-> "http", status |-> 200, result |-> "error", has_rates |-> FALSE, rates |-> {}] }
    \cup { [kind |-> "http", status |-> 200, result |-> "success", has_rates |-> FALSE, rates |-> {}] }
    \cup { [kind |-> "http", status |-> 200, result |-> "success", has_rates |-> TRUE, rates |-> r] :
               r \in Rates }

NoFinResponse == [kind |-> "none", status |-> 0, result |-> "", has_rates |-> FALSE, rates |-> {}]

NotSeen == [cache |-> {}, cache_time |-> 0, last |-> RNone]

\* the steps by which the clock advances between events
ClockSteps == {1, TTL - 1}

\* variant: an entry exactly TTL old still counts as fresh
CacheValidInclusive(c, ct, now) == c # {} /\ now - ct <= TTL

\* if self._cache and (now - self._cache_time < self._ttl)
CacheValid(c, ct, now) == c # {} /\ now - ct < TTL

\* response.status == 200 and data.get("result") == "success"
FetchSucceeded(resp) ==
    resp.kind = "http" /\ resp.status = 200 /\ resp.result = "success"

\* data.get("rates", {})
RatesOf(resp) == IF resp.has_rates THEN resp.rates ELSE {}

\* variant: a success stores the payload and leaves the timestamp
CacheAfterKeepsStamp(resp, now, c, ct) ==
    IF resp.kind = "http" /\ resp.status = 200 /\ resp.result = "success"
    THEN [cache |-> IF resp.has_rates THEN resp.rates ELSE {}, cache_time |-> ct]
    ELSE [cache |-> c, cache_time |-> ct]

\* variant: the timestamp is assigned before the response is examined
CacheAfterStampsFirst(resp, now, c, ct) ==
    IF resp.kind = "http" /\ resp.status = 200 /\ resp.result = "success"
    THEN [cache |-> IF resp.has_rates THEN resp.rates ELSE {}, cache_time |-> now]
    ELSE [cache |-> c, cache_time |-> IF resp.kind = "http" THEN now ELSE ct]

\* the cache entry after the response to a request made at `now` was handled:
\* only the success branch assigns self._cache and self._cache_time
CacheAfter(resp, now, c, ct) ==
    IF FetchSucceeded(resp)
    THEN [cache |-> RatesOf(resp), cache_time |-> now]
    ELSE [cache |-> c, cache_time |-> ct]

\* what get_rates returns after the response: self._cache, or None
RatesReturned(resp, newcache) ==
    IF FetchSucceeded(resp) THEN RDict(newcache) ELSE RNone

FinInit ==
    /\ clock = StartTime
    /\ ticks = 0
    /\ cache = {}
    /\ cache_time = 0
    /\ fpc = [c \in Callers |-> "idle"]
    /\ fnow = [c \in Callers |-> 0]
    /\ fret = [c \in Callers |-> RNone]
    /\ fnet = [c \in Callers |-> 0]
    /\ fresp = [c \in Callers |-> NoFinResponse]
    /\ fseen = [c \in Callers |-> NotSeen]
    /\ flast = RNone

\* time passes
Tick(d) ==
    /\ ticks < MaxTicks
    /\ ticks' = ticks + 1
    /\ clock' = clock + d
    /\ UNCHANGED <<cache, cache_time, fpc, fnow, fret, fnet, fresp, fseen, flast>>
    /\ UNCHANGED <<newsVars, subsVars, workerVars, favVars>>

\* get_rates up to its first suspension: the cached payload is returned, or
\* the request is issued
GetRates(c) ==
    /\ fpc[c] = "idle"
    /\ fnow' = [fnow EXCEPT ![c] = clock]
    /\ fseen' = [fseen EXCEPT ![c] =
                    [cache |-> cache, cache_time |-> cache_time, last |-> flast]]
    /\ IF CacheValid(cache, cache_time, clock)
       THEN /\ fpc' = [fpc EXCEPT ![c] = "done"]
            /\ fret' = [fret EXCEPT ![c] = RDict(cache)]
            /\ flast' = RDict(cache)
            /\ fnet' = [fnet EXCEPT ![c] = 0]
       ELSE /\ fpc' = [fpc EXCEPT ![c] = "fetching"]
            /\ fnet' = [fnet EXCEPT ![c] = 1]
            /\ UNCHANGED <<fret, flast>>
    /\ UNCHANGED <<clock, ticks, cache, cache_time, fresp>>
    /\ UNCHANGED <<newsVars, subsVars, workerVars, favVars>>

\* the upstream answers caller c's request and get_rates runs to its return
RatesResponse(c, resp) ==
    /\ fpc[c] = "fetching"
    /\ LET after == CacheAfter(resp, fnow[c], cache, cache_time)
           ret   == RatesReturned(resp, after.cache)
       IN  /\ cache' = after.cache
           /\ cache_time' = after.cache_time
           /\ fret' = [fret EXCEPT ![c] = ret]
           /\ flast' = IF ret = RNone THEN flast ELSE ret
    /\ fresp' = [fresp EXCEPT ![c] = resp]
    /\ fpc' = [fpc EXCEPT ![c] = "done"]
    /\ UNCHANGED <<clock, ticks, fnow, fnet, fseen>>
    /\ UNCHANGED <<newsVars, subsVars, workerVars, favVars>>

\* the caller has the value and the call's locals are gone
RatesReturn(c) ==
    /\ fpc[c] = "done"
    /\ fpc' = [fpc EXCEPT ![c] = "idle"]
    /\ fnow' = [fnow EXCEPT ![c] = 0]
    /\ fret' = [fret EXCEPT ![c] = RNone]
    /\ fnet' = [fnet EXCEPT ![c] = 0]
    /\ fresp' = [fresp EXCEPT ![c] = NoFinResponse]
    /\ fseen' = [fseen EXCEPT ![c] = NotSeen]
    /\ UNCHANGED <<clock, ticks, cache, cache_time, flast>>
    /\ UNCHANGED <<newsVars, subsVars, workerVars, favVars>>

(***************************************************************************)
(* Properties of the rate cache.                                           *)
(***************************************************************************)
\* the call of caller c found an entry that was within the TTL
FoundValidEntry(c) ==
    fseen[c].cache # {} /\ fnow[c] - fseen[c].cache_time < TTL

\* the request failed: it raised, or the status was not 200, or the result
\* was not "success"
FetchFailed(resp) ==
    \/ resp.kind = "exception"
    \/ resp.kind = "http" /\ (resp.status # 200 \/ resp.result # "success")

C9_StaleServedOnFailure ==
    \A c \in Callers :
        (fpc[c] = "done" /\ fnet[c] = 1 /\ FetchFailed(fresp[c])) =>
            /\ fseen[c].cache # {} => fret[c] = RDict(fseen[c].cache)
            /\ fret[c] = RNone => fseen[c].cache = {}

\* C10: the steps of a call whose fetch fails leave the stored payload and
\* its timestamp as they were
C10_FailedFetchKeepsEntry ==
    [][\A c \in Callers :
          (\/ fpc[c] = "idle" /\ fpc'[c] # "idle"
           \/ fpc[c] = "fetching" /\ fpc'[c] = "done" /\ FetchFailed(fresp'[c])) =>
              (cache' = cache /\ cache_time' = cache_time)]_vars

\* a call that found an expired entry has failed, and the entry is still there
C10_Witness ==
    \E c \in Callers :
        /\ fpc[c] = "done" /\ fnet[c] = 1 /\ FetchFailed(fresp[c])
        /\ fseen[c].cache # {}
        /\ cache = fseen[c].cache /\ cache_time = fseen[c].cache_time

\* C23: a call issues a request exactly when it finds no entry or an entry
\* that is TTL old or older, and then only one; when the response is a
\* success the call stores the payload and its `now` and returns the payload
\* of its own response, also when another call is fetching at the same time
C23_MissFetchesOnceAndStores ==
    [][\A c \in Callers :
          /\ (fpc[c] = "idle" /\ fpc'[c] # "idle") =>
                /\ fpc'[c] = "fetching" <=> (cache = {} \/ clock - cache_time >= TTL)
                /\ fnet'[c] = IF fpc'[c] = "fetching" THEN 1 ELSE 0
          /\ (fpc[c] = "fetching" /\ fpc'[c] = "done") =>
                /\ fnet'[c] = 1
                /\ (fresp'[c].kind = "http" /\ fresp'[c].status = 200
                       /\ fresp'[c].result = "success") =>
                      /\ cache' = (IF fresp'[c].has_rates THEN fresp'[c].rates ELSE {})
                      /\ cache_time' = fnow[c]
                      /\ fret'[c] = RDict(cache')]_vars

\* two calls found the same expired entry, both fetched, the responses were
\* successes with different payloads, and each call returned its own
C23_Witness ==
    \E c, d \in Callers :
        /\ c # d
        /\ fpc[c] = "done" /\ fpc[d] = "done"
        /\ fnet[c] = 1 /\ fnet[d] = 1
        /\ fseen[c].cache # {}
        /\ fseen[c].cache = fseen[d].cache
        /\ fseen[c].cache_time = fseen[d].cache_time
        /\ fnow[c] - fseen[c].cache_time >= TTL
        /\ FetchSucceeded(fresp[c]) /\ FetchSucceeded(fresp[d])
        /\ fret[c] = RDict(fresp[c].rates)
        /\ fret[d] = RDict(fresp[d].rates)
        /\ fret[c] # fret[d]

\* C28: whatever the interleaving of the calls, the stored timestamp never
\* goes back, and a stored payload is replaced only by the payload of a
\* request that started no earlier than the one that produced it (the stored
\* timestamp is the start of the request that produced the stored payload)
C28_EntryNeverGoesBack ==
    [][/\ cache_time' >= cache_time
       /\ \A c \in Callers :
             (fpc[c] = "fetching" /\ fpc'[c] = "done" /\ FetchSucceeded(fresp'[c])) =>
                 fnow[c] >= cache_time]_vars

\* C29: once a successful response was stored, a call made less than TTL
\* after it issues no request, whatever the payload was, and a successful
\* response never replaces a non-empty payload by an empty one
C29_AnySuccessIsCached ==
    [][\A c \in Callers :
          /\ (fpc[c] = "idle" /\ fpc'[c] # "idle"
                 /\ cache_time # 0 /\ clock - cache_time < TTL) =>
                (fpc'[c] = "done" /\ fnet'[c] = 0)
          /\ (fpc[c] = "fetching" /\ fpc'[c] = "done" /\ FetchSucceeded(fresp'[c])
                 /\ cache # {}) =>
                cache' # {}]_vars

(***************************************************************************)
(* The subscriptions: process_sub_time, cb_unsub, save_subs, load_data.    *)
(* The dict `subscriptions` is a sequence of records [uid, city, time, tz] *)
(* in insertion order; a time and a JSON key are sequences of              *)
(* one-character strings.                                                  *)
(***************************************************************************)
\* the users of the bot
Uids == {7, 42}

\* what process_sub_city kept of a city lookup: data["name"] and
\* data.get("timezone", 0)
Cities == { [name |-> "Paris", tz |-> 3600], [name |-> "London", tz |-> 0] }

\* the texts a user sends as the time of the subscription
TimeTexts ==
    { <<"0", "8", ":", "3", "0">>,
      <<"8", ":", "3", "0">>,
      <<" ", "7", ":", "3", "0">>,
      <<"0", "7", ":", "3", "1">>,
      <<"2", "4", ":", "0", "0">>,
      <<"1", "2", ":", "6", "0">>,
      <<"8", "3", "0">> }

DigitChars == <<"0", "1", "2", "3", "4", "5", "6", "7", "8", "9">>

\* \d of the regular expression, for ASCII digits
IsDigit(c) == \E d \in 1..10 : DigitChars[d] = c

DigitValue(c) == (CHOOSE d \in 1..10 : DigitChars[d] = c) - 1

\* int(s) of a string of digits
RECURSIVE StrToInt(_)
StrToInt(s) ==
    IF s = <<>> THEN 0
    ELSE 10 * StrToInt(SubSeq(s, 1, Len(s) - 1)) + DigitValue(s[Len(s)])

\* str(n) of a natural number
RECURSIVE IntToStr(_)
IntToStr(n) ==
    IF n < 10 THEN <<DigitChars[n + 1]>>
    ELSE IntToStr(n \div 10) \o <<DigitChars[(n % 10) + 1]>>

\* f"{n:02d}"
Format02d(n) == IF n < 10 THEN <<"0">> \o IntToStr(n) ELSE IntToStr(n)

\* re.match(r"^\d{1,2}:\d{2}$", time_str), on a stripped string
MatchesTimeFormat(s) ==
    \E k \in 1..2 :
        /\ Len(s) = k + 3
        /\ \A i \in 1..k : IsDigit(s[i])
        /\ s[k + 1] = ":"
        /\ IsDigit(s[k + 2])
        /\ IsDigit(s[k + 3])

\* h, m = map(int, time_str.split(":"))
ColonAt(s) == CHOOSE i \in 1..Len(s) : s[i] = ":"
HourOf(s) == StrToInt(SubSeq(s, 1, ColonAt(s) - 1))
MinuteOf(s) == StrToInt(SubSeq(s, ColonAt(s) + 1, Len(s)))

Rejected == [ok |-> FALSE, time |-> <<>>]

\* variant: the time is stored as the user typed it
ParseSubTimeAsTyped(text) ==
    LET time_str == StrStrip(text)
    IN  IF ~MatchesTimeFormat(time_str) THEN Rejected
        ELSE LET h == HourOf(time_str)
                 m == MinuteOf(time_str)
             IN  IF ~(0 <= h /\ h <= 23 /\ 0 <= m /\ m <= 59) THEN Rejected
                 ELSE [ok |-> TRUE, time |-> time_str]

\* the head of process_sub_time: the normalized time, or a rejection
ParseSubTime(text) ==
    LET time_str == StrStrip(text)
    IN  IF ~MatchesTimeFormat(time_str) THEN Rejected
        ELSE LET h == HourOf(time_str)
                 m == MinuteOf(time_str)
             IN  IF ~(0 <= h /\ h <= 23 /\ 0 <= m /\ m <= 59) THEN Rejected
                 ELSE [ok |-> TRUE,
                       time |-> Format02d(h) \o <<":">> \o Format02d(m)]

\* the keys of the dict
Keys(subs) == { subs[i].uid : i \in 1..Len(subs) }

\* uid in subscriptions
HasSub(subs, uid) == uid \in Keys(subs)

\* subscriptions[uid]
SubOf(subs, uid) == subs[CHOOSE i \in 1..Len(subs) : subs[i].uid = uid]

\* variant: an assignment that adds an item whatever the keys are
SubsPutAppend(subs, uid, rec) == Append(subs, rec)

\* subscriptions[uid] = {...}: an existing key keeps its place
SubsPut(subs, uid, rec) ==
    IF HasSub(subs, uid)
    THEN [i \in 1..Len(subs) |-> IF subs[i].uid = uid THEN rec ELSE subs[i]]
    ELSE Append(subs, rec)

\* del subscriptions[uid]
SubsDel(subs, uid) ==
    LET Other(r) == r.uid # uid IN SelectSeq(subs, Other)

\* SUBS_FILE: absent, a JSON object, or text that does not parse
FileAbsent == [kind |-> "absent", data |-> <<>>]
FileCorrupt == [kind |-> "corrupt", data |-> <<>>]

\* json.dump(subscriptions, f): the keys of a JSON object are strings
JsonDump(subs) ==
    [kind |-> "json",
     data |-> [i \in 1..Len(subs) |->
                  [key |-> IntToStr(subs[i].uid), city |-> subs[i].city,
                   time |-> subs[i].time, tz |-> subs[i].tz]]]

\* how a save_subs ends: written; open() failed and the file is as it was;
\* open() truncated the file and the write failed
SaveOutcomes == {"ok", "open_failed", "write_failed"}

\* variant: the handlers without their save_subs()
SaveSubsNever(file, subs, outcome) == file

\* save_subs: an exception of the write is logged and swallowed
SaveSubs(file, subs, outcome) ==
    IF outcome = "ok" THEN JsonDump(subs)
    ELSE IF outcome = "open_failed" THEN file
    ELSE FileCorrupt

\* load_data at start-up: {int(k): v for k, v in data.items()}; without a
\* file, or when the file does not parse, subscriptions stays {}
LoadData(file) ==
    IF file.kind = "json"
    THEN [i \in 1..Len(file.data) |->
             [uid |-> StrToInt(file.data[i].key), city |-> file.data[i].city,
              time |-> file.data[i].time, tz |-> file.data[i].tz]]
    ELSE <<>>

\* the times process_sub_time stores
StoredTimes == { ParseSubTime(text).time : text \in {t \in TimeTexts : ParseSubTime(t).ok} }

\* the records a user may have stored
SubRecords(uid) ==
    { [uid |-> uid, city |-> c.name, time |-> t, tz |-> c.tz] :
          c \in Cities, t \in StoredTimes }

\* the dicts of at most one record per user
SubscriptionSets ==
    {<<>>}
    \cup { <<r>> : r \in UNION { SubRecords(u) : u \in Uids } }
    \cup { <<r1, r2>> : r1 \in SubRecords(7), r2 \in SubRecords(42) }
    \cup { <<r1, r2>> : r1 \in SubRecords(42), r2 \in SubRecords(7) }

\* the files an earlier run of the process may have left
StoredFiles == {FileAbsent} \cup { JsonDump(subs) : subs \in SubscriptionSets }

\* no record
NoRec == [uid |-> 0, city |-> "", time |-> <<>>, tz |-> 0]

NoOp == [op |-> "none", uid |-> 0, rec |-> NoRec, mutated |-> FALSE,
         prev |-> <<>>, text |-> <<>>]

\* the module is imported: subscriptions = {} and then load_data()
SubsInit(file) ==
    /\ subs_file = file
    /\ subscriptions = LoadData(file)
    /\ lastop = NoOp
    /\ lastsave = "none"
    /\ nops = 0

\* process_sub_time for user uid, whose dialogue holds the looked-up city,
\* on the message text; the save ends as `outcome` says
ProcessSubTime(uid, city, text, outcome) ==
    /\ nops < MaxOps
    /\ nops' = nops + 1
    /\ LET parsed == ParseSubTime(text)
           rec == [uid |-> uid, city |-> city.name, time |-> parsed.time,
                   tz |-> city.tz]
       IN  IF ~parsed.ok
           THEN /\ lastop' = [op |-> "rejected", uid |-> uid, rec |-> NoRec,
                              mutated |-> FALSE, prev |-> subscriptions,
                              text |-> text]
                /\ UNCHANGED <<subscriptions, subs_file, lastsave>>
           ELSE /\ subscriptions' = SubsPut(subscriptions, uid, rec)
                /\ subs_file' = SaveSubs(subs_file, subscriptions', outcome)
                /\ lastsave' = outcome
                /\ lastop' = [op |-> "register", uid |-> uid, rec |-> rec,
                              mutated |-> TRUE, prev |-> subscriptions,
                              text |-> text]
    /\ UNCHANGED <<newsVars, finVars, workerVars, favVars>>

\* cb_unsub for user uid
CbUnsub(uid, outcome) ==
    /\ nops < MaxOps
    /\ nops' = nops + 1
    /\ IF HasSub(subscriptions, uid)
       THEN /\ subscriptions' = SubsDel(subscriptions, uid)
            /\ subs_file' = SaveSubs(subs_file, subscriptions', outcome)
            /\ lastsave' = outcome
       ELSE UNCHANGED <<subscriptions, subs_file, lastsave>>
    /\ lastop' = [op |-> "unsub", uid |-> uid, rec |-> NoRec,
                  mutated |-> HasSub(subscriptions, uid),
                  prev |-> subscriptions, text |-> <<>>]
    /\ UNCHANGED <<newsVars, finVars, workerVars, favVars>>

(***************************************************************************)
(* The favourites of one user: add_fav_city, cb_add_fav, cb_clear_fav,     *)
(* save_favs, load_data.  The dict entry is absent or a list of city       *)
(* names; a name is a sequence of one-character strings.                   *)
(***************************************************************************)
\* the concurrent calls of add_fav_city
Adders == {1, 2}

UpperChar(c) ==
    IF \E i \in 1..Len(LowerChars) : LowerChars[i] = c
    THEN UpperChars[CHOOSE i \in 1..Len(LowerChars) : LowerChars[i] = c]
    ELSE c

IsLetter(c) ==
    \E i \in 1..Len(UpperChars) : UpperChars[i] = c \/ LowerChars[i] = c

\* str.title(): a letter that follows a letter is lowered, any other letter
\* is raised
StrTitle(s) ==
    [i \in 1..Len(s) |->
        IF i > 1 /\ IsLetter(s[i - 1]) THEN LowerChar(s[i]) ELSE UpperChar(s[i])]

Nice == <<"N", "i", "c", "e">>
Lima == <<"L", "i", "m", "a">>
Bend == <<"B", "e", "n", "d">>
Jena == <<"J", "e", "n", "a">>
Hama == <<"H", "a", "m", "a">>
Elche == <<"E", "l", "c", "h", "e">>
Nicaea == <<"N", "i", "c", "a", "e", "a">>

\* the texts a user sends as the city to add
FavTexts ==
    { <<" ", "n", "i", "c", "e">>, <<"n", "i", "c", "a", "e", "a">>,
      <<"j", "e", "n", "a">>, <<"h", "a", "m", "a">> }

\* last_query.get(uid): nothing, or the city of the user's last weather query
NoQuery == [has |-> FALSE, city |-> <<>>]
LastQueries == {NoQuery} \cup { [has |-> TRUE, city |-> c] : c \in {Nice, Elche} }

\* the name under which the weather API knows the city of a query
GeoName(city) == IF city = Nicaea THEN Nice ELSE city

\* what get_current(city) may return: None, a document without "name", a
\* document with the API's name of the city
NoLookup == [found |-> FALSE, has_name |-> FALSE, name |-> <<>>]
FavLookups(city) ==
    { NoLookup,
      [found |-> TRUE, has_name |-> FALSE, name |-> <<>>],
      [found |-> TRUE, has_name |-> TRUE, name |-> GeoName(city)] }

\* the user's entry of `favorites`
NoFavs == [has |-> FALSE, favs |-> <<>>]
FavList(l) == [has |-> TRUE, favs |-> l]

\* city.lower() in [c.lower() for c in user_favs]
InFavs(city, favs) ==
    \E i \in 1..Len(favs) : StrLower(favs[i]) = StrLower(city)

\* len(user_favs) >= MAX_FAVORITES
FavsFull(favs) == Len(favs) >= MAX_FAVORITES

\* data.get("name", city)
RealName(data, city) == IF data.has_name THEN data.name ELSE city

\* favorites.setdefault(uid, [])
SetDefault(fav) == FavList(fav.favs)

\* save_favs: json.dump(favorites, f); an exception is logged and swallowed
SaveFavs(file, fav, outcome) ==
    IF outcome = "ok" THEN [kind |-> "json", data |-> fav]
    ELSE IF outcome = "open_failed" THEN file
    ELSE [kind |-> "corrupt", data |-> NoFavs]

FavsFileAbsent == [kind |-> "absent", data |-> NoFavs]

\* load_data: favorites = {int(k): v ...}, or {} without a usable file
LoadFavs(file) == IF file.kind = "json" THEN file.data ELSE NoFavs

\* the files an earlier run of the process may have left
StoredFavFiles ==
    { FavsFileAbsent,
      [kind |-> "json", data |-> FavList(<<Lima, Bend, Elche, Hama>>)],
      [kind |-> "json", data |-> FavList(<<Lima, Bend, Elche, Hama, Jena>>)] }

FavInit(file) ==
    /\ favs_file = file
    /\ favorites = LoadFavs(file)
    /\ apc = [h \in Adders |-> "idle"]
    /\ acity = [h \in Adders |-> <<>>]
    /\ adet = [h \in Adders |-> FALSE]
    /\ fops = 0

\* add_fav_city on the message text, up to its return or to the await of
\* get_current
AddFavCity(h, text) ==
    /\ apc[h] = "idle"
    /\ fops < MaxFavOps
    /\ fops' = fops + 1
    /\ LET city == StrTitle(StrStrip(text))
           user_favs == SetDefault(favorites)
       IN  /\ favorites' = user_favs
           /\ IF InFavs(city, user_favs.favs) \/ FavsFull(user_favs.favs)
              THEN UNCHANGED <<apc, acity, adet>>
              ELSE /\ apc' = [apc EXCEPT ![h] = "lookup"]
                   /\ acity' = [acity EXCEPT ![h] = city]
                   /\ adet' = [adet EXCEPT ![h] = FALSE]
    /\ UNCHANGED favs_file
    /\ UNCHANGED <<newsVars, finVars, subsVars, workerVars>>

\* get_current has returned: add_fav_city appends to the list it holds and
\* saves
AddFavLookupDone(h, data, outcome) ==
    /\ apc[h] = "lookup"
    /\ IF ~data.found
       THEN UNCHANGED <<favorites, favs_file>>
       ELSE /\ favorites' = IF adet[h] THEN favorites
                            ELSE FavList(Append(favorites.favs, RealName(data, acity[h])))
            /\ favs_file' = SaveFavs(favs_file, favorites', outcome)
    /\ apc' = [apc EXCEPT ![h] = "idle"]
    /\ acity' = [acity EXCEPT ![h] = <<>>]
    /\ adet' = [adet EXCEPT ![h] = FALSE]
    /\ UNCHANGED fops
    /\ UNCHANGED <<newsVars, finVars, subsVars, workerVars>>

\* cb_add_fav, when last_query holds lq for the user
CbAddFav(lq, outcome) ==
    /\ fops < MaxFavOps
    /\ fops' = fops + 1
    /\ IF ~lq.has
       THEN UNCHANGED <<favorites, favs_file>>
       ELSE LET user_favs == SetDefault(favorites)
            IN  IF InFavs(lq.city, user_favs.favs) \/ FavsFull(user_favs.favs)
                THEN /\ favorites' = user_favs
                     /\ UNCHANGED favs_file
                ELSE /\ favorites' = FavList(Append(user_favs.favs, lq.city))
                     /\ favs_file' = SaveFavs(favs_file, favorites', outcome)
    /\ UNCHANGED <<apc, acity, adet>>
    /\ UNCHANGED <<newsVars, finVars, subsVars, workerVars>>

\* cb_clear_fav: favorites.pop(uid, None); a list that a suspended
\* add_fav_city holds is no longer in the dict
CbClearFav(outcome) ==
    /\ fops < MaxFavOps
    /\ fops' = fops + 1
    /\ favorites' = NoFavs
    /\ favs_file' = SaveFavs(favs_file, favorites', outcome)
    /\ adet' = [h \in Adders |-> adet[h] \/ apc[h] = "lookup"]
    /\ UNCHANGED <<apc, acity>>
    /\ UNCHANGED <<newsVars, finVars, subsVars, workerVars>>

\* C30: the user's list holds at most MAX_FAVORITES cities and no two of
\* them are equal when case is ignored, whatever handlers have run and
\* however they interleaved
C30_FavsBoundedAndDistinct ==
    /\ Len(favorites.favs) <= MAX_FAVORITES
    /\ \A i, j \in 1..Len(favorites.favs) :
          StrLower(favorites.favs[i]) = StrLower(favorites.favs[j]) => i = j

(***************************************************************************)
(* The restart of the process.                                             *)
(***************************************************************************)
\* the process ends and is started again
Restart ==
    /\ nops < MaxOps
    /\ nops' = nops + 1
    /\ subscriptions' = LoadData(subs_file)
    /\ lastop' = [op |-> "restart", uid |-> 0, rec |-> NoRec,
                  mutated |-> FALSE, prev |-> subscriptions, text |-> <<>>]
    /\ UNCHANGED <<subs_file, lastsave>>
    /\ wpc' = "start"
    /\ wsleep' = 0
    /\ wnow' = 0
    /\ wsnap' = <<>>
    /\ widx' = 0
    /\ wticks' = 0
    /\ wraised' = FALSE
    /\ wfetched' = <<>>
    /\ wsent' = <<>>
    /\ wfailed' = {}
    /\ UNCHANGED wclock
    /\ favorites' = LoadFavs(favs_file)
    /\ apc' = [h \in Adders |-> "idle"]
    /\ acity' = [h \in Adders |-> <<>>]
    /\ adet' = [h \in Adders |-> FALSE]
    /\ UNCHANGED <<favs_file, fops>>
    /\ UNCHANGED <<newsVars, finVars>>

(***************************************************************************)
(* Properties of the subscriptions.                                        *)
(***************************************************************************)
\* C14: the subscriptions hold at most one record per user; a registration
\* puts its record in the place of the user's earlier one and leaves the
\* other users' records alone; after an unsubscribe the user has no record
C14_OneRecordPerUser ==
    /\ \A i, j \in 1..Len(subscriptions) :
          subscriptions[i].uid = subscriptions[j].uid => i = j
    /\ lastop.op = "register" =>
          /\ HasSub(subscriptions, lastop.uid)
          /\ SubOf(subscriptions, lastop.uid) = lastop.rec
          /\ \A u \in Uids \ {lastop.uid} :
                /\ HasSub(subscriptions, u) <=> HasSub(lastop.prev, u)
                /\ HasSub(subscriptions, u) =>
                      SubOf(subscriptions, u) = SubOf(lastop.prev, u)
    /\ lastop.op = "unsub" => ~HasSub(subscriptions, lastop.uid)

\* a user registered again with another record while another user was
\* subscribed
C14_Witness ==
    /\ lastop.op = "register"
    /\ HasSub(lastop.prev, lastop.uid)
    /\ SubOf(lastop.prev, lastop.uid) # lastop.rec
    /\ Len(lastop.prev) = 2
    /\ Len(subscriptions) = 2

StartOffsets == {0, 30}

\* the seconds a get_current and a send_message may take
FetchDelays == {0, 10}
SendDelays == {0, 59}

\* the last wall-clock time of the model
DispEnd == DispStart + DispHorizon

\* the JSON bodies of the weather API: the complete document, a document
\* without "weather" and "main", and the empty object
WeatherFull == [kind |-> "dict", keys |-> {"weather", "main", "name"}]
WeatherPartial == [kind |-> "dict", keys |-> {"cod", "name"}]
WeatherEmpty == [kind |-> "dict", keys |-> {}]
WeatherNone == [kind |-> "none", keys |-> {}]
\* the result of a call that has not returned
WeatherPending == [kind |-> "pending", keys |-> {}]

\* what the weather API may answer to one request
WeatherResponses ==
    { [kind |-> "ok", body |-> b] :
          b \in {WeatherFull, WeatherPartial, WeatherEmpty} }
    \cup { [kind |-> k, body |-> WeatherNone] : k \in {"status", "exception"} }

\* WeatherService._fetch: None for a status other than 200 and for an
\* exception of the request, else the parsed body
WsFetch(resp) == IF resp.kind = "ok" THEN resp.body ELSE WeatherNone

\* `if data:`
DataTruthy(data) == data.kind = "dict" /\ data.keys # {}

\* format_current(data) raises: it reads data["weather"][0], data["main"]
\* and data["name"]
FormatCurrentRaises(data) == ~({"weather", "main", "name"} \subseteq data.keys)

\* how bot.send_message may end
SendOutcomes == {"ok", "raised"}

\* user_now.strftime("%H:%M") of a number of seconds since midnight
StrfTime(t) ==
    Format02d((t \div 3600) % 24) \o <<":">> \o Format02d((t \div 60) % 60)

\* a string of the form "HH:MM": two digits, a colon, two digits, the hour
\* in 00..23 and the minute in 00..59
IsHHMM(t) ==
    /\ Len(t) = 5
    /\ IsDigit(t[1]) /\ IsDigit(t[2]) /\ t[3] = ":"
    /\ IsDigit(t[4]) /\ IsDigit(t[5])
    /\ StrToInt(SubSeq(t, 1, 2)) <= 23
    /\ StrToInt(SubSeq(t, 4, 5)) <= 59

\* the hour and the minute a text names, surrounding blanks aside
NamesTime(text, h, m) ==
    LET s == StrStrip(text)
    IN  /\ \E i \in 1..Len(s) : s[i] = ":"
        /\ \A i \in 1..Len(s) : s[i] = ":" \/ IsDigit(s[i])
        /\ StrToInt(SubSeq(s, 1, ColonAt(s) - 1)) = h
        /\ StrToInt(SubSeq(s, ColonAt(s) + 1, Len(s))) = m

\* C27: every stored time has the form "HH:MM"; a registration stores the
\* hour and the minute its text names, zero-padded; a text naming hour 24 or
\* minute 60 is rejected and leaves the subscriptions as they were; and
\* strftime("%H:%M") of the stored hour and minute is the stored string
C27_StoredTimeIsHHMM ==
    /\ \A i \in 1..Len(subscriptions) :
          /\ IsHHMM(subscriptions[i].time)
          /\ StrfTime(StrToInt(SubSeq(subscriptions[i].time, 1, 2)) * 3600
                       + StrToInt(SubSeq(subscriptions[i].time, 4, 5)) * 60)
                = subscriptions[i].time
    /\ lastop.op = "register" =>
          /\ SubOf(subscriptions, lastop.uid).time = lastop.rec.time
          /\ NamesTime(lastop.text,
                       StrToInt(SubSeq(lastop.rec.time, 1, 2)),
                       StrToInt(SubSeq(lastop.rec.time, 4, 5)))
    /\ (lastop.op = "register" /\ NamesTime(lastop.text, 7, 30)) =>
          lastop.rec.time = <<"0", "7", ":", "3", "0">>
    /\ (\/ NamesTime(lastop.text, 24, 0)
        \/ NamesTime(lastop.text, 12, 60)) =>
          (lastop.op = "rejected" /\ subscriptions = lastop.prev)

\* "24:00" was rejected after " 7:30" had been stored as "07:30", and the
\* subscription is still there
C27_Witness ==
    /\ lastop.op = "rejected"
    /\ NamesTime(lastop.text, 24, 0)
    /\ Len(subscriptions) = 1
    /\ subscriptions[1].time = <<"0", "7", ":", "3", "0">>
    /\ subscriptions = lastop.prev

\* variant: the comparison with the UTC time
MatchesUtc(sub, now) == StrfTime(now) = sub.time

\* variant: the comparison of the hours alone
MatchesHour(sub, now) ==
    SubSeq(StrfTime(now + sub.tz), 1, 2) = SubSeq(sub.time, 1, 2)

\* curr_time == sub["time"], for user_now = now + timedelta(seconds=user_tz)
Matches(sub, now) == StrfTime(now + sub.tz) = sub.time

\* the next item of the snapshot after item i whose time matches, or
\* Len(snap) + 1 when the loop runs out
NextMatch(snap, now, i) ==
    IF \E j \in (i + 1)..Len(snap) : Matches(snap[j], now)
    THEN CHOOSE j \in (i + 1)..Len(snap) :
            /\ Matches(snap[j], now)
            /\ \A k \in (i + 1)..(j - 1) : ~Matches(snap[k], now)
    ELSE Len(snap) + 1

\* variant: a sleep of the whole period after every tick
SleepFixed(c) == TickPeriod

\* 60 - datetime.now().second, at wall-clock time c
SleepAfterTick(c) == TickPeriod - (c % 60)

\* variant: a loop without the outer except clause
TickEscapes(i) == [pc |-> "stopped", idx |-> i, sleep |-> 0]

\* variant: the loop starts its next tick at once after an exception
TickRaisedRetriesAtOnce(i) == [pc |-> "sleeping", idx |-> i, sleep |-> 0]

\* except Exception: log, then asyncio.sleep(60); the loop had come to item i
TickRaised(i) == [pc |-> "sleeping", idx |-> i, sleep |-> FallbackSleep]

\* the for loop goes on after item i at wall-clock time c: up to the next
\* get_current, or to the sleep after the loop
LoopFrom(snap, now, i, c) ==
    LET j == NextMatch(snap, now, i)
    IN  IF j <= Len(snap)
        THEN [pc |-> "fetching", idx |-> j, sleep |-> 0]
        ELSE [pc |-> "sleeping", idx |-> Len(snap), sleep |-> SleepAfterTick(c)]

\* the log of get_current calls, after the worker has come to `ctl`
FetchLog(log, snap, ctl) ==
    IF ctl.pc = "fetching"
    THEN Append(log, [uid |-> snap[ctl.idx].uid, data |-> WeatherPending])
    ELSE log

\* the last entry of a log, completed
Completed(log, field, val) ==
    [log EXCEPT ![Len(log)] = [log[Len(log)] EXCEPT ![field] = val]]

WorkerInit(start) ==
    /\ wclock = start
    /\ wpc = "start"
    /\ wsleep = 0
    /\ wnow = 0
    /\ wsnap = <<>>
    /\ widx = 0
    /\ wticks = 0
    /\ wraised = FALSE
    /\ wfetched = <<>>
    /\ wsent = <<>>
    /\ wfailed = {}

\* the worker starts, or its sleep ends: a tick reads the clock, takes the
\* snapshot and runs up to its first await
BroadcastTick ==
    /\ wpc \in {"start", "sleeping"}
    /\ wclock + wsleep <= DispEnd
    /\ LET c == wclock + wsleep
           ctl == LoopFrom(subscriptions, c, 0, c)
       IN  /\ wclock' = c
           /\ wnow' = c
           /\ wsnap' = subscriptions
           /\ wpc' = ctl.pc
           /\ widx' = ctl.idx
           /\ wsleep' = ctl.sleep
           /\ wfetched' = FetchLog(<<>>, subscriptions, ctl)
    /\ wticks' = wticks + 1
    /\ wraised' = FALSE
    /\ wsent' = <<>>
    /\ UNCHANGED wfailed
    /\ UNCHANGED <<newsVars, finVars, subsVars, favVars>>

\* get_current returns after d seconds what _fetch makes of the response
FetchDone(resp, d) ==
    /\ wpc = "fetching"
    /\ wclock + d <= DispEnd
    /\ wclock' = wclock + d
    /\ LET data == WsFetch(resp)
           log == Completed(wfetched, "data", data)
           ctl == IF ~DataTruthy(data)
                  THEN LoopFrom(wsnap, wnow, widx, wclock + d)
                  ELSE IF FormatCurrentRaises(data) THEN TickRaised(widx)
                  ELSE [pc |-> "sending", idx |-> widx, sleep |-> 0]
       IN  /\ wpc' = ctl.pc
           /\ widx' = ctl.idx
           /\ wsleep' = ctl.sleep
           /\ wfetched' = FetchLog(log, wsnap, ctl)
           /\ wraised' = (DataTruthy(data) /\ FormatCurrentRaises(data))
           /\ wsent' = IF ctl.pc = "sending"
                       THEN Append(wsent, [uid |-> wsnap[widx].uid,
                                           outcome |-> "pending"])
                       ELSE wsent
           /\ wfailed' = IF DataTruthy(data) THEN wfailed
                         ELSE wfailed \cup {[uid |-> wsnap[widx].uid, now |-> wnow]}
    /\ UNCHANGED <<wnow, wsnap, wticks>>
    /\ UNCHANGED <<newsVars, finVars, subsVars, favVars>>

\* send_message returns or raises after d seconds; the exception is logged
SendDone(outcome, d) ==
    /\ wpc = "sending"
    /\ wclock + d <= DispEnd
    /\ wclock' = wclock + d
    /\ LET ctl == LoopFrom(wsnap, wnow, widx, wclock + d)
       IN  /\ wpc' = ctl.pc
           /\ widx' = ctl.idx
           /\ wsleep' = ctl.sleep
           /\ wfetched' = FetchLog(wfetched, wsnap, ctl)
    /\ wsent' = Completed(wsent, "outcome", outcome)
    /\ UNCHANGED <<wnow, wsnap, wticks, wraised, wfailed>>
    /\ UNCHANGED <<newsVars, finVars, subsVars, favVars>>

(***************************************************************************)
(* Properties of the worker.                                               *)
(***************************************************************************)
\* the minute of the day at the user's place, and the minute of the day a
\* time "HH:MM" names
LocalMinute(now, tz) == ((now + tz) \div 60) % 1440
TimeMinute(time) == HourOf(time) * 60 + MinuteOf(time)

\* the local time of the subscriber is the time of the subscription
Due(sub, now) == LocalMinute(now, sub.tz) = TimeMinute(sub.time)

\* the users of the first n items of the snapshot whose time is due
DueUids(snap, now, n) ==
    LET IsDue(r) == Due(r, now)
        due == SelectSeq(SubSeq(snap, 1, n), IsDue)
    IN  [k \in 1..Len(due) |-> due[k].uid]

FetchedUids == [k \in 1..Len(wfetched) |-> wfetched[k].uid]
SentUids == [k \in 1..Len(wsent) |-> wsent[k].uid]

\* get_current returned a document that format_current renders
Renders(data) == DataTruthy(data) /\ ~FormatCurrentRaises(data)

\* the users whose get_current of this tick returned such a document
RenderedUids ==
    LET Ok(f) == Renders(f.data)
        ok == SelectSeq(wfetched, Ok)
    IN  [k \in 1..Len(ok) |-> ok[k].uid]

Count(seq, x) == Cardinality({k \in 1..Len(seq) : seq[k] = x})

\* a tick has come to its sleep
TickEnded == wpc = "sleeping" /\ wticks > 0

C12_FailureIsolated ==
    TickEnded =>
        \A i \in 1..Len(wsnap) :
            Due(wsnap[i], wnow) =>
                /\ Count(FetchedUids, wsnap[i].uid) = 1
                /\ \A k \in 1..Len(wfetched) :
                      (wfetched[k].uid = wsnap[i].uid /\ Renders(wfetched[k].data))
                          => Count(SentUids, wsnap[i].uid) = 1

\* C13: the worker never stops: an exception that escapes the body of a tick
\* puts the worker into a sleep of 60 seconds, and when the sleep is over
\* the next tick starts
C13_WorkerNeverStops ==
    /\ wpc \in {"start", "fetching", "sending", "sleeping"}
    /\ wraised => wpc = "sleeping" /\ wsleep = 60
    /\ (wraised /\ wclock + wsleep <= DispEnd) => ENABLED BroadcastTick

\* a tick raised while another subscription was still to be served
C13_Witness ==
    /\ wraised
    /\ wpc = "sleeping"
    /\ widx < Len(wsnap)
    /\ wclock + wsleep <= DispEnd

\* C17: a user whose fetch returned no data gets no delivery in that tick
\* and no second fetch in it, and no tick after it fetches for the user
\* again; a fetch is issued only for a subscription whose time is due
C17_NoRetryAfterFailedFetch ==
    /\ \A k \in 1..Len(wfetched) :
          /\ (wfetched[k].data # WeatherPending /\ ~DataTruthy(wfetched[k].data))
                => Count(SentUids, wfetched[k].uid) = 0
          /\ Count(FetchedUids, wfetched[k].uid) = 1
          /\ \E i \in 1..Len(wsnap) :
                wsnap[i].uid = wfetched[k].uid /\ Due(wsnap[i], wnow)
    /\ \A f \in wfailed :
          \A k \in 1..Len(wfetched) : wfetched[k].uid = f.uid => f.now = wnow

\* a fetch failed, and a later tick has ended with the user still subscribed
C17_Witness ==
    /\ TickEnded
    /\ \E f \in wfailed :
          /\ f.now < wnow
          /\ \E i \in 1..Len(wsnap) : wsnap[i].uid = f.uid
          /\ Count(FetchedUids, f.uid) = 0

\* C18: a tick that raises nothing ends in a sleep of 60 - s seconds, s the
\* second of the clock at its end, which is 1 to 60 seconds and ends at
\* second 0; a tick starts when the sleep of the tick before is over, and at
\* second 0 when that tick raised nothing
C18_SleepToNextMinute ==
    [][/\ (wpc' = "sleeping" /\ ~wraised') =>
              /\ wsleep' = 60 - (wclock' % 60)
              /\ 1 <= wsleep' /\ wsleep' <= 60
              /\ (wclock' + wsleep') % 60 = 0
       /\ wticks' # wticks =>
              /\ wpc \in {"start", "sleeping"}
              /\ wnow' = wclock + wsleep
              /\ wclock' = wnow'
              /\ (wpc = "sleeping" /\ ~wraised) => wnow' % 60 = 0]_vars

\* a second tick ended at second 59 and sleeps one second
C18_Witness ==
    /\ wpc = "sleeping"
    /\ ~wraised
    /\ wticks >= 2
    /\ wclock % 60 = 59
    /\ wsleep = 1

\* C24: a delivery is issued only to a user who holds a subscription at
\* that moment: after an unsubscribe and before a new registration the
\* worker issues no send_message to the user, also in a tick that took its
\* snapshot before the unsubscribe
C24_NoDeliveryAfterUnsub ==
    [][(wpc # "sending" /\ wpc' = "sending") =>
          HasSub(subscriptions, wsnap'[widx'].uid)]_vars

\* C25: a tick that follows a tick that did not raise evaluates the minute
\* after the one that tick evaluated, however long that tick took, so that
\* no minute in which a subscription is due goes by without a tick
C25_EveryMinuteEvaluated ==
    [][(wticks' = wticks + 1 /\ wticks > 0 /\ ~wraised) =>
          /\ wnow' \div 60 = (wnow \div 60) + 1
          /\ \A m \in ((wnow \div 60) + 1)..((wnow' \div 60) - 1) :
                \A i \in 1..Len(subscriptions) :
                    ~Due(subscriptions[i], m * 60)]_vars

\* C26: a tick evaluates a later minute than the tick before it, also when
\* that tick raised and the loop slept its 60 seconds, and a tick issues at
\* most one delivery to a user
C26_OneTickPerMinute ==
    [][/\ (wticks' = wticks + 1 /\ wticks > 0) =>
              (wnow' \div 60) > (wnow \div 60)
       /\ \A u \in Uids : Count(SentUids', u) <= 1]_vars

\* a tick raised ten seconds into the minute in which a subscription was
\* due, the loop sleeps its 60 seconds, and the next tick is about to start
C26_Witness ==
    /\ wpc = "sleeping"
    /\ wraised
    /\ wsleep = FallbackSleep
    /\ wclock % 60 = 10
    /\ \E i \in 1..Len(wsnap) : Due(wsnap[i], wnow)
    /\ ENABLED BroadcastTick

Init ==
    /\ NewsInit
    /\ FinInit
    /\ SubsInit(FileAbsent)
    /\ WorkerInit(DispStart)
    /\ FavInit(FavsFileAbsent)

NextNews ==
    \/ \E cat \in Categories : GetNewsByCategory(cat)
    \/ \E i \in 1..Len(results), resp \in Responses : FetchSourceDone(i, resp)
    \/ GatherDone
    \/ NewsReturn

SpecNews == Init /\ [][NextNews]_vars

\* the aggregation call on the dated feeds
NextFeed ==
    \/ \E cat \in Categories : GetNewsByCategory(cat)
    \/ \E i \in 1..Len(results), resp \in DatedResponses : FetchSourceDone(i, resp)
    \/ GatherDone
    \/ NewsReturn

SpecFeed == Init /\ [][NextFeed]_vars

NextFinance ==
    \/ \E d \in ClockSteps : Tick(d)
    \/ \E c \in Callers : GetRates(c)
    \/ \E c \in Callers, resp \in FinResponses : RatesResponse(c, resp)
    \/ \E c \in Callers : RatesReturn(c)

SpecFinance == Init /\ [][NextFinance]_vars

NextSubs ==
    \/ \E uid \in Uids, city \in Cities, text \in TimeTexts,
          outcome \in SaveOutcomes : ProcessSubTime(uid, city, text, outcome)
    \/ \E uid \in Uids, outcome \in SaveOutcomes : CbUnsub(uid, outcome)
    \/ Restart

SpecSubs == Init /\ [][NextSubs]_vars

DispInit ==
    /\ NewsInit
    /\ FinInit
    /\ \E file \in StoredFiles : SubsInit(file)
    /\ \E off \in StartOffsets : WorkerInit(DispStart + off)
    /\ FavInit(FavsFileAbsent)

NextDispatch ==
    \/ BroadcastTick
    \/ \E resp \in WeatherResponses, d \in FetchDelays : FetchDone(resp, d)
    \/ \E outcome \in SendOutcomes, d \in SendDelays : SendDone(outcome, d)

SpecDispatch == DispInit /\ [][NextDispatch]_vars

\* the texts of the registrations made while the worker runs
LiveTexts == { <<"0", "8", ":", "3", "0">>, <<" ", "7", ":", "3", "0">> }

\* the worker while the users register and unsubscribe
NextLive ==
    \/ BroadcastTick
    \/ \E resp \in WeatherResponses, d \in FetchDelays : FetchDone(resp, d)
    \/ \E outcome \in SendOutcomes, d \in SendDelays : SendDone(outcome, d)
    \/ \E uid \in Uids, city \in Cities, text \in LiveTexts :
          ProcessSubTime(uid, city, text, "ok")
    \/ \E uid \in Uids : CbUnsub(uid, "ok")

SpecLive == Init /\ [][NextLive]_vars

\* the favourites handlers of one user, on the favourites an earlier run left
FavsInit ==
    /\ NewsInit
    /\ FinInit
    /\ SubsInit(FileAbsent)
    /\ WorkerInit(DispStart)
    /\ \E file \in StoredFavFiles : FavInit(file)

NextFavs ==
    \/ \E h \in Adders, text \in FavTexts : AddFavCity(h, text)
    \/ \E h \in Adders :
          \E data \in FavLookups(acity[h]), outcome \in SaveOutcomes :
              AddFavLookupDone(h, data, outcome)
    \/ \E lq \in LastQueries, outcome \in SaveOutcomes : CbAddFav(lq, outcome)
    \/ \E outcome \in SaveOutcomes : CbClearFav(outcome)

SpecFavs == FavsInit /\ [][NextFavs]_vars

====
